---- MODULE Spec2Model ----
(***************************************************************************)
(* Vision-Narrador: the multi-tier LRU cache (cache_lru_multinivel.py) and *)
(* the task scheduler (sistema_paralelizacion_ultraavanzado.py) as state   *)
(* machines.  Sizes are in abstract units; the thresholds of the code      *)
(* (10% and 5% of the Tier-1 capacity) are kept as integer comparisons.    *)
(***************************************************************************)
EXTENDS Integers, Sequences, FiniteSets, TLC

(***************************************************************************)
(* Bounds and configuration                                                *)
(***************************************************************************)
\* keys that put and get use freely
NCalientes == 2
\* fresh keys: each one is put once, in increasing order (a scan workload)
NFrescas == 12
\* caps on what the puts of hot keys add to the 'bytes stored' statistic,
\* which only grows
MaxBytes == 8
MaxBytesLRU == 2
MaxBytesErrores == 4
\* cap on the number of shedding passes of the memory monitor
MaxPasadas == 1
\* access-frequency counters saturate here (the code only compares them with 3)
MaxFrecuencia == 3

\* scheduler: task objects created, clock readings, and the configuration
\* (ConfiguracionParalelizacion) scaled down
MaxTareas == 3
MaxReloj == 2
NHashes == 1
MinWorkers == 1
MaxWorkers == 2
TamanoMaximoCola == 3
MaxTareasPool == 5
\* escalar_workers is called with loads up to this
MaxCarga == 6

\* CacheL1Memoria.capacidad_bytes and CacheL2Disco.capacidad_bytes
L1Cap == 20
L2Cap == 6
\* bytes that pickling a bytes object adds to its length (blob file of a
\* compressed value)
MarcoPickle == 1

Calientes == 1..NCalientes
Frescas == (NCalientes + 1)..(NCalientes + NFrescas)
Claves == Calientes \cup Frescas
NoClave == 0

\* Values: Nada is Python's None.  TamPickle(v) is len(pickle.dumps(v)),
\* TamGzip(v) is len(gzip.compress(pickle.dumps(v))).
Nada == 0
Blob == 9
Valores == {0, 2, 3, 4}
ValorRelleno == 2
TamPickle(v) == CASE v = 0 -> 1
                  [] v = 2 -> 2
                  [] v = 3 -> 3
                  [] v = 4 -> 7
                  [] OTHER -> 1
TamGzip(v) == CASE v = 3 -> 1
                [] v = 4 -> 3
                [] OTHER -> TamPickle(v) + 1

VARIABLES
  config,        \* [habilitar_compresion, auto_limpieza]
  l1,            \* CacheL1Memoria: [datos, metadatos, tamano_actual]
  l2,            \* CacheL2Disco: [metadatos, archivos]
  est,           \* EstadisticasCache: [evictions, bytes_almacenados]
  mon,           \* position and locals of the monitor thread's shedding pass
  siguiente,     \* next fresh key of the scan workload
  pasadas,       \* shedding passes started so far
  toque,         \* observation: keys of Tier-1 from least to most recently touched
  ult,           \* observation: the last cache call and what it returned
  l2put,         \* position and locals of a client thread inside CacheL2Disco.put
  reloj,         \* the reading of the system clock
  objs,          \* the TareaParalelizacion objects created so far
  tareas,        \* QueueInteligente.tareas: task id -> object
  max_size,      \* QueueInteligente.max_size (0: no limit)
  autoscaling,   \* ConfiguracionParalelizacion.habilitar_autoscaling
  colas,         \* QueueInteligente.cola_prioridad: priority -> heap of <<-timestamp, id>>
  workers,       \* WorkerPoolDinamico.workers / metricas_workers, in insertion order
  disponibles,   \* WorkerPoolDinamico.workers_disponibles: type -> list of workers
  ciclo,         \* position and locals of the control loop thread
  metricas,      \* MetricasSistema: [tareas_totales, tareas_pendientes, workers_activos]
  decisiones,    \* observation: the load and the pool size that the last call of
                 \* escalar_workers found, and what it returned
  envio          \* observation: how the submit_tarea of the step just taken ended

cvars == <<config, l1, l2, est, mon, siguiente, pasadas, toque, ult, l2put>>
svars == <<reloj, objs, tareas, max_size, autoscaling, colas, workers, disponibles, ciclo,
           metricas, decisiones, envio>>
vars == <<config, l1, l2, est, mon, siguiente, pasadas, toque, ult, l2put,
          reloj, objs, tareas, max_size, autoscaling, colas, workers, disponibles, ciclo,
          metricas, decisiones, envio>>

(***************************************************************************)
(* Helpers on dicts (functions with a finite domain) and ordered dicts     *)
(***************************************************************************)
Quitar(f, k) == [x \in (DOMAIN f) \ {k} |-> f[x]]
Poner(f, k, e) == [x \in (DOMAIN f) \cup {k} |-> IF x = k THEN e ELSE f[x]]
ClavesDe(s) == {s[i].clave : i \in 1..Len(s)}
SinClave(s, k) == SelectSeq(s, LAMBDA e : e.clave # k)
ValorDe(s, k) == (CHOOSE i \in 1..Len(s) : s[i].clave = k)
QuitarDeSeq(s, k) == SelectSeq(s, LAMBDA e : e # k)

Sat(n) == IF n > MaxFrecuencia THEN MaxFrecuencia ELSE n

RECURSIVE SumaTam(_, _)
SumaTam(f, S) == IF S = {} THEN 0
                 ELSE LET k == CHOOSE x \in S : TRUE
                      IN f[k] + SumaTam(f, S \ {k})

(***************************************************************************)
(* CacheL1Memoria                                                          *)
(***************************************************************************)
\* _evict_lru: pops the first key of datos, then its metadata (KeyError when
\* the metadata is gone), then subtracts its size.
L1_evict_lru(c) ==
  IF c.datos = <<>> THEN [c |-> c, clave |-> NoClave, err |-> FALSE]
  ELSE LET k == Head(c.datos).clave
       IN IF k \in DOMAIN c.metadatos
          THEN [c |-> [datos |-> Tail(c.datos),
                       metadatos |-> Quitar(c.metadatos, k),
                       tamano_actual |-> c.tamano_actual - c.metadatos[k].tamano_bytes],
                clave |-> k, err |-> FALSE]
          ELSE [c |-> [c EXCEPT !.datos = Tail(c.datos)], clave |-> k, err |-> TRUE]

\* the while loop of put: evict while the new entry does not fit and datos
\* is not empty
RECURSIVE L1_hacer_sitio(_, _, _)
L1_hacer_sitio(c, tam, exp) ==
  IF c.tamano_actual + tam > L1Cap /\ Len(c.datos) > 0
  THEN LET r == L1_evict_lru(c)
       IN IF r.err THEN [c |-> r.c, expulsadas |-> exp, err |-> TRUE]
          ELSE L1_hacer_sitio(r.c, tam, Append(exp, r.clave))
  ELSE [c |-> c, expulsadas |-> exp, err |-> FALSE]

\* put(clave, valor, metadata)
L1_put(c, k, v, m) ==
  IF k \in ClavesDe(c.datos) /\ k \notin DOMAIN c.metadatos
  THEN [c |-> c, expulsadas |-> <<>>, err |-> TRUE]
  ELSE LET c0 == IF k \in ClavesDe(c.datos)
                 THEN [datos |-> SinClave(c.datos, k),
                       metadatos |-> Quitar(c.metadatos, k),
                       tamano_actual |-> c.tamano_actual - c.metadatos[k].tamano_bytes]
                 ELSE c
           r == L1_hacer_sitio(c0, m.tamano_bytes, <<>>)
       IN IF r.err THEN r
          ELSE [c |-> [datos |-> Append(r.c.datos, [clave |-> k, valor |-> v]),
                       metadatos |-> Poner(r.c.metadatos, k, m),
                       tamano_actual |-> r.c.tamano_actual + m.tamano_bytes],
                expulsadas |-> r.expulsadas, err |-> FALSE]

\* get(clave): a hit moves the key to the end and counts the access
L1_get(c, k) ==
  IF k \in ClavesDe(c.datos)
  THEN LET v == c.datos[ValorDe(c.datos, k)].valor
           d == Append(SinClave(c.datos, k), [clave |-> k, valor |-> v])
       IN IF k \in DOMAIN c.metadatos
          THEN [c |-> [c EXCEPT !.datos = d,
                                !.metadatos[k].frecuencia_acceso = Sat(@ + 1)],
                hit |-> TRUE, valor |-> v, err |-> FALSE]
          ELSE [c |-> [c EXCEPT !.datos = d], hit |-> FALSE, valor |-> Nada, err |-> TRUE]
  ELSE [c |-> c, hit |-> FALSE, valor |-> Nada, err |-> FALSE]

L1_clear == [datos |-> <<>>, metadatos |-> <<>>, tamano_actual |-> 0]

(***************************************************************************)
(* CacheL2Disco.  timestamp_acceso is kept as the rank of the entry among  *)
(* the entries of the index (1 = least recently accessed).  A blob file is *)
(* [valor, forma, tam]: forma "obj" is the pickled value, "gz" the pickled *)
(* gzip bytes, "raw" the pickled uncompressed bytes (compression failed),  *)
(* "roto" a file truncated by a failed write; tam is its st_size.          *)
(***************************************************************************)
L2_calcular_tamano_actual(c) ==
  SumaTam([k \in DOMAIN c.archivos |-> c.archivos[k].tam], DOMAIN c.archivos)

Compactar(md) ==
  [k \in DOMAIN md |->
     [md[k] EXCEPT !.ts = Cardinality({j \in DOMAIN md : md[j].ts <= md[k].ts})]]

NuevoTs(md) == Cardinality(DOMAIN md) + 1

L2_eliminar_archivo(c, k) ==
  [metadatos |-> Compactar(Quitar(c.metadatos, k)), archivos |-> Quitar(c.archivos, k)]

MasAntiguo(md) ==
  CHOOSE k \in DOMAIN md : \A j \in DOMAIN md : md[k].ts <= md[j].ts

RECURSIVE L2_limpiar_espacio(_, _, _)
L2_limpiar_espacio(c, bytes_necesarios, exp) ==
  IF L2_calcular_tamano_actual(c) + bytes_necesarios > L2Cap /\ DOMAIN c.metadatos # {}
  THEN LET k == MasAntiguo(c.metadatos)
       IN L2_limpiar_espacio(L2_eliminar_archivo(c, k), bytes_necesarios, Append(exp, k))
  ELSE [c |-> c, expulsadas |-> exp]

\* put(clave, valor, metadata); falla: "no", "open" (the blob cannot be opened
\* for writing), "dump" (the write fails after the file was truncated)
L2_put(c, k, contenido, m, falla) ==
  LET r == L2_limpiar_espacio(c, m.tamano_bytes, <<>>)
      c1 == r.c
      md == [tamano_bytes |-> m.tamano_bytes, frecuencia_acceso |-> m.frecuencia_acceso,
             comprimido |-> m.comprimido, ts |-> NuevoTs(c1.metadatos)]
  IN [expulsadas |-> r.expulsadas,
      c |-> CASE falla = "open" -> c1
              [] falla = "dump" ->
                   [c1 EXCEPT !.archivos =
                      Poner(c1.archivos, k, [valor |-> Nada, forma |-> "roto", tam |-> 0])]
              [] OTHER ->
                   [metadatos |-> Compactar(Poner(c1.metadatos, k, md)),
                    archivos |-> Poner(c1.archivos, k, contenido)]]

\* get(clave); lee_ok: the blob can be opened and read
L2_get(c, k, lee_ok) ==
  IF /\ k \in DOMAIN c.metadatos
     /\ k \in DOMAIN c.archivos
     /\ lee_ok
     /\ c.archivos[k].forma # "roto"
  THEN LET old == c.metadatos[k]
           f == Sat(old.frecuencia_acceso + 1)
       IN [c |-> [c EXCEPT !.metadatos =
                     Compactar([c.metadatos EXCEPT ![k] =
                        [old EXCEPT !.ts = NuevoTs(c.metadatos), !.frecuencia_acceso = f]])],
           hit |-> TRUE,
           datos |-> c.archivos[k],
           metadata |-> [tamano_bytes |-> old.tamano_bytes, frecuencia_acceso |-> f,
                         comprimido |-> old.comprimido]]
  ELSE [c |-> c, hit |-> FALSE, datos |-> [valor |-> Nada, forma |-> "obj", tam |-> 0],
        metadata |-> [tamano_bytes |-> 0, frecuencia_acceso |-> 0, comprimido |-> FALSE]]

(***************************************************************************)
(* CompresorInteligente and pickle                                          *)
(***************************************************************************)
\* what CacheMultinivel.put hands to Tier-2 for value v
Contenido(v, comprimir, gz_ok) ==
  IF comprimir
  THEN IF gz_ok THEN [valor |-> v, forma |-> "gz", tam |-> TamGzip(v) + MarcoPickle]
       ELSE [valor |-> v, forma |-> "raw", tam |-> TamPickle(v) + MarcoPickle]
  ELSE [valor |-> v, forma |-> "obj", tam |-> TamPickle(v)]

\* what CacheMultinivel.get makes of a loaded blob: bytes are decompressed
\* and unpickled only when the metadata says comprimido
Decodificar(d, comprimido) ==
  CASE d.forma = "obj" -> d.valor
    [] comprimido -> d.valor
    [] OTHER -> Blob

(***************************************************************************)
(* CacheMultinivel                                                         *)
(***************************************************************************)
EnL1(tam) == tam * 10 <= L1Cap
\* variant of the promotion test with a threshold of 20% of the capacity of
\* Tier-1; only the sensitivity run of C35 uses it
Promovible_veinte(m) == m.tamano_bytes * 5 <= L1Cap /\ m.frecuencia_acceso >= 3
\* the promotion test of get: at most 5% of the capacity of Tier-1 and
\* accessed 3 times or more
Promovible(m) == m.tamano_bytes * 20 <= L1Cap /\ m.frecuencia_acceso >= 3

\* put(clave, valor, ...) on the cache s = [l1, l2, est] under configuration cf,
\* from the point where pickle.dumps(valor) has returned
Cache_put_serializado(s, cf, k, v, gz_ok, falla) ==
  LET tam == TamPickle(v)
      m == [tamano_bytes |-> tam, frecuencia_acceso |-> 1, comprimido |-> FALSE]
  IN IF EnL1(tam)
     THEN LET r == L1_put(s.l1, k, v, m)
          IN IF r.err
             THEN [l1 |-> r.c, l2 |-> s.l2, est |-> s.est, ret |-> FALSE,
                   nivel |-> "L1", exp1 |-> r.expulsadas, exp2 |-> <<>>]
             ELSE [l1 |-> r.c, l2 |-> s.l2,
                   est |-> [s.est EXCEPT !.bytes_almacenados = @ + tam],
                   ret |-> TRUE, nivel |-> "L1", exp1 |-> r.expulsadas, exp2 |-> <<>>]
     ELSE LET comp == cf.habilitar_compresion
              m2 == IF comp
                    THEN [m EXCEPT !.comprimido = TRUE,
                                   !.tamano_bytes = IF gz_ok THEN TamGzip(v) ELSE tam]
                    ELSE m
              r == L2_put(s.l2, k, Contenido(v, comp, gz_ok), m2, falla)
          IN [l1 |-> s.l1, l2 |-> r.c,
              est |-> [s.est EXCEPT !.bytes_almacenados = @ + m2.tamano_bytes],
              ret |-> TRUE, nivel |-> "L2", exp1 |-> <<>>, exp2 |-> r.expulsadas]

\* variant of put that counts the bytes of a value before it is pickled;
\* only the sensitivity run of C22 uses it
Cache_put_cuenta_antes(s, cf, k, v, gz_ok, falla) ==
  IF falla = "dumps"
  THEN [l1 |-> s.l1, l2 |-> s.l2,
        est |-> [s.est EXCEPT !.bytes_almacenados = @ + 1],
        ret |-> FALSE, nivel |-> "-", exp1 |-> <<>>, exp2 |-> <<>>]
  ELSE Cache_put_serializado(s, cf, k, v, gz_ok, falla)
\* put(clave, valor, ...); falla = "dumps": pickle.dumps(valor) raises, the
\* put is routed to no tier and returns False
Cache_put(s, cf, k, v, gz_ok, falla) ==
  IF falla = "dumps"
  THEN [l1 |-> s.l1, l2 |-> s.l2, est |-> s.est,
        ret |-> FALSE, nivel |-> "-", exp1 |-> <<>>, exp2 |-> <<>>]
  ELSE Cache_put_serializado(s, cf, k, v, gz_ok, falla)

\* get(clave)
Cache_get(s, k, lee_ok) ==
  LET r1 == L1_get(s.l1, k)
  IN IF r1.err
     THEN [l1 |-> r1.c, l2 |-> s.l2, ret |-> Nada, nivel |-> "error",
           promovida |-> FALSE, exp1 |-> <<>>]
     ELSE IF r1.hit
     THEN [l1 |-> r1.c, l2 |-> s.l2, ret |-> r1.valor, nivel |-> "L1",
           promovida |-> FALSE, exp1 |-> <<>>]
     ELSE LET r2 == L2_get(s.l2, k, lee_ok)
          IN IF ~r2.hit
             THEN [l1 |-> s.l1, l2 |-> s.l2, ret |-> Nada, nivel |-> "miss",
                   promovida |-> FALSE, exp1 |-> <<>>]
             ELSE LET v == Decodificar(r2.datos, r2.metadata.comprimido)
                  IN IF Promovible(r2.metadata)
                     THEN LET p == L1_put(s.l1, k, v, r2.metadata)
                          IN IF p.err
                             THEN [l1 |-> p.c, l2 |-> r2.c, ret |-> Nada, nivel |-> "error",
                                   promovida |-> FALSE, exp1 |-> p.expulsadas]
                             ELSE [l1 |-> p.c, l2 |-> r2.c, ret |-> v, nivel |-> "L2",
                                   promovida |-> TRUE, exp1 |-> p.expulsadas]
                     ELSE [l1 |-> s.l1, l2 |-> r2.c, ret |-> v, nivel |-> "L2",
                           promovida |-> FALSE, exp1 |-> <<>>]

(***************************************************************************)
(* Observation: the Tier-1 keys from least to most recently touched, kept  *)
(* from the calls alone (a put or a promotion into Tier-1 and a Tier-1 hit *)
(* touch the key; a key that left Tier-1 is dropped).                      *)
(***************************************************************************)
Residentes(c) == ClavesDe(c.datos)
SoloResidentes(t, c) == SelectSeq(t, LAMBDA k : k \in Residentes(c))
Tocar(t, c, k) ==
  IF k \in Residentes(c) THEN Append(QuitarDeSeq(SoloResidentes(t, c), k), k)
  ELSE SoloResidentes(t, c)

\* the cache's observations of a get and of a put
UltGet(k, r, lee_ok) ==
  [op |-> "get", clave |-> k, valor |-> Nada, ret |-> r.ret, ok |-> TRUE,
   nivel |-> r.nivel, limpio |-> lee_ok,
   promovida |-> r.promovida, exp1 |-> r.exp1, exp2 |-> <<>>]
UltPut(k, v, r, limpio) ==
  [op |-> "put", clave |-> k, valor |-> v, ret |-> Nada, ok |-> r.ret,
   nivel |-> r.nivel, limpio |-> limpio,
   promovida |-> FALSE, exp1 |-> r.exp1, exp2 |-> r.exp2]
ToqueGet(r, k) ==
  IF r.nivel = "L1" \/ r.promovida THEN Tocar(toque, r.l1, k)
  ELSE SoloResidentes(toque, r.l1)
ToquePut(r, k) ==
  IF r.nivel = "L1" /\ r.ret THEN Tocar(toque, r.l1, k)
  ELSE SoloResidentes(toque, r.l1)

\* total is elementos_a_limpiar and n what is left of it; antes and ev0 are
\* observations: the keys of Tier-1, oldest first, and the eviction counter
\* when the pass began
MonIdle == [pc |-> "idle", n |-> 0, clave |-> NoClave, tam |-> 0, tmp |-> 0,
            total |-> 0, antes |-> <<>>, ev0 |-> 0]

\* no thread is inside CacheL2Disco.put.  bytes is bytes_necesarios, exp the
\* keys deleted so far, fijos the keys whose blob file cannot be unlinked
\* while the call lasts; vuelta is an observation: the parity of the number
\* of iterations that the loop of _limpiar_espacio has made
L2PutIdle == [pc |-> "idle", clave |-> NoClave, valor |-> Nada, bytes |-> 0,
              exp |-> <<>>, fijos |-> {}, vuelta |-> 0]

CacheInit(comp, auto) ==
  /\ config \in [habilitar_compresion : comp, auto_limpieza : {auto}]
  /\ l1 = L1_clear
  /\ l2 = [metadatos |-> <<>>, archivos |-> <<>>]
  /\ est = [evictions |-> 0, bytes_almacenados |-> 0]
  /\ mon = MonIdle
  /\ l2put = L2PutIdle
  /\ siguiente = NCalientes + 1
  /\ pasadas = 0
  /\ toque = <<>>
  /\ ult = [op |-> "init", clave |-> NoClave, valor |-> Nada, ret |-> Nada, ok |-> TRUE,
            nivel |-> "-", limpio |-> TRUE, promovida |-> FALSE,
            exp1 |-> <<>>, exp2 |-> <<>>]

\* a client thread calls put(k, v)
Put(k, v, gz_ok, falla) ==
  /\ k \in Claves
  /\ k \in Frescas => k = siguiente
  /\ (falla # "dumps" /\ EnL1(TamPickle(v))) => (gz_ok /\ falla = "no")
  /\ (falla = "dumps" \/ ~config.habilitar_compresion) => gz_ok
  /\ LET r == Cache_put([l1 |-> l1, l2 |-> l2, est |-> est], config, k, v, gz_ok, falla)
     IN /\ l1' = r.l1
        /\ l2' = r.l2
        /\ est' = r.est
        /\ toque' = ToquePut(r, k)
        /\ ult' = UltPut(k, v, r, gz_ok /\ falla = "no")
  /\ siguiente' = IF k = siguiente THEN siguiente + 1 ELSE siguiente
  /\ UNCHANGED <<config, l2put, mon, pasadas>>
  /\ UNCHANGED svars

\* a client thread calls get(k)
Get(k, lee_ok) ==
  /\ LET r == Cache_get([l1 |-> l1, l2 |-> l2, est |-> est], k, lee_ok)
     IN /\ l1' = r.l1
        /\ l2' = r.l2
        /\ toque' = ToqueGet(r, k)
        /\ ult' = UltGet(k, r, lee_ok)
  /\ UNCHANGED <<config, l2put, est, mon, siguiente, pasadas>>
  /\ UNCHANGED svars

\* limpiar_todo()
LimpiarTodo ==
  /\ l1' = L1_clear
  /\ l2' = [metadatos |-> <<>>, archivos |-> <<>>]
  /\ est' = [evictions |-> 0, bytes_almacenados |-> 0]
  /\ toque' = <<>>
  /\ ult' = [op |-> "clear", clave |-> NoClave, valor |-> Nada, ret |-> Nada, ok |-> TRUE,
             nivel |-> "-", limpio |-> TRUE, promovida |-> FALSE,
             exp1 |-> <<>>, exp2 |-> <<>>]
  /\ UNCHANGED <<config, l2put, mon, siguiente, pasadas>>
  /\ UNCHANGED svars

(***************************************************************************)
(* CacheL2Disco.put statement by statement: the loop of _limpiar_espacio   *)
(* runs while the calling thread holds the lock of Tier-2.                 *)
(***************************************************************************)
\* _eliminar_archivo(clave) when archivo.unlink() may raise: the except
\* clause is entered before the key is deleted from the index
L2_eliminar_archivo_si(c, k, borra_ok) ==
  IF borra_ok \/ k \notin DOMAIN c.archivos THEN L2_eliminar_archivo(c, k) ELSE c

\* the test of the while loop of _limpiar_espacio
L2_falta_espacio(c, bytes_necesarios) ==
  L2_calcular_tamano_actual(c) + bytes_necesarios > L2Cap /\ DOMAIN c.metadatos # {}

\* a client thread calls put(k, v) with a value too large for Tier-1:
\* CacheMultinivel.put up to the call of CacheL2Disco.put, which takes the
\* lock; the blobs of fijos cannot be unlinked for as long as the call lasts
L2PutInicio(k, v, fijos) ==
  /\ l2put.pc = "idle"
  /\ k \in Claves
  /\ k \in Frescas => k = siguiente
  /\ ~EnL1(TamPickle(v))
  /\ fijos \subseteq DOMAIN l2.archivos
  /\ l2put' = [pc |-> "limpiar", clave |-> k, valor |-> v,
               bytes |-> IF config.habilitar_compresion THEN TamGzip(v) ELSE TamPickle(v),
               exp |-> <<>>, fijos |-> fijos, vuelta |-> 0]
  /\ siguiente' = IF k = siguiente THEN siguiente + 1 ELSE siguiente
  /\ UNCHANGED <<config, l1, l2, est, mon, pasadas, toque, ult>>
  /\ UNCHANGED svars

\* one iteration of the while loop of _limpiar_espacio
L2PutVuelta ==
  /\ l2put.pc = "limpiar"
  /\ L2_falta_espacio(l2, l2put.bytes)
  /\ LET k == MasAntiguo(l2.metadatos)
         c == L2_eliminar_archivo_si(l2, k, k \notin l2put.fijos)
     IN /\ l2' = c
        /\ l2put' = [l2put EXCEPT !.vuelta = 1 - @,
                                  !.exp = IF k \in DOMAIN c.metadatos THEN @ ELSE Append(@, k)]
  /\ UNCHANGED <<config, l1, est, mon, siguiente, pasadas, toque, ult>>
  /\ UNCHANGED svars

\* the loop is over: the blob and the index entry are written, the lock is
\* released, and CacheMultinivel.put counts the bytes and returns True
L2PutEscribir ==
  /\ l2put.pc = "limpiar"
  /\ ~L2_falta_espacio(l2, l2put.bytes)
  /\ LET comp == config.habilitar_compresion
         m2 == [tamano_bytes |-> l2put.bytes, frecuencia_acceso |-> 1, comprimido |-> comp]
         r == L2_put(l2, l2put.clave, Contenido(l2put.valor, comp, TRUE), m2, "no")
     IN /\ l2' = r.c
        /\ est' = [est EXCEPT !.bytes_almacenados = @ + l2put.bytes]
        /\ ult' = UltPut(l2put.clave, l2put.valor,
                         [ret |-> TRUE, nivel |-> "L2", exp1 |-> <<>>, exp2 |-> l2put.exp],
                         TRUE)
  /\ toque' = SoloResidentes(toque, l1)
  /\ l2put' = L2PutIdle
  /\ UNCHANGED <<config, l1, mon, siguiente, pasadas>>
  /\ UNCHANGED svars

(***************************************************************************)
(* The monitor thread: _limpieza_automatica calls _evict_lru without       *)
(* taking the Tier-1 lock, so its statements interleave with the clients'  *)
(* calls.                                                                  *)
(***************************************************************************)
\* elementos_a_limpiar = len(datos) // 4 (a pass of zero elements does nothing)
MonitorInicio ==
  /\ mon.pc = "idle"
  /\ config.auto_limpieza
  /\ pasadas < MaxPasadas
  /\ Len(l1.datos) \div 4 > 0
  /\ mon' = [MonIdle EXCEPT !.pc = "loop", !.n = Len(l1.datos) \div 4,
                            !.total = Len(l1.datos) \div 4,
                            !.antes = [i \in 1..Len(l1.datos) |-> l1.datos[i].clave],
                            !.ev0 = est.evictions]
  /\ pasadas' = pasadas + 1
  /\ UNCHANGED <<config, l2put, l1, l2, est, siguiente, toque, ult>>
  /\ UNCHANGED svars

\* if self.cache_l1.datos: ... clave_lru = next(iter(self.datos))
MonitorElegir ==
  /\ mon.pc = "loop"
  /\ IF l1.datos = <<>>
     THEN mon' = IF mon.n > 1 THEN [mon EXCEPT !.n = @ - 1] ELSE MonIdle
     ELSE mon' = [mon EXCEPT !.pc = "pop_datos", !.clave = Head(l1.datos).clave]
  /\ UNCHANGED <<config, l2put, l1, l2, est, siguiente, pasadas, toque, ult>>
  /\ UNCHANGED svars

\* self.datos.pop(clave_lru): KeyError ends the pass
MonitorPopDatos ==
  /\ mon.pc = "pop_datos"
  /\ IF mon.clave \in ClavesDe(l1.datos)
     THEN /\ l1' = [l1 EXCEPT !.datos = SinClave(l1.datos, mon.clave)]
          /\ mon' = [mon EXCEPT !.pc = "pop_meta"]
     ELSE /\ l1' = l1
          /\ mon' = MonIdle
  /\ toque' = SoloResidentes(toque, l1')
  /\ UNCHANGED <<config, l2put, l2, est, siguiente, pasadas, ult>>
  /\ UNCHANGED svars

\* metadata = self.metadatos.pop(clave_lru): KeyError ends the pass
MonitorPopMeta ==
  /\ mon.pc = "pop_meta"
  /\ IF mon.clave \in DOMAIN l1.metadatos
     THEN /\ l1' = [l1 EXCEPT !.metadatos = Quitar(l1.metadatos, mon.clave)]
          /\ mon' = [mon EXCEPT !.pc = "leer", !.tam = l1.metadatos[mon.clave].tamano_bytes]
     ELSE /\ l1' = l1
          /\ mon' = MonIdle
  /\ UNCHANGED <<config, l2put, l2, est, siguiente, pasadas, toque, ult>>
  /\ UNCHANGED svars

\* self.tamano_actual -= metadata.tamano_bytes: the read ...
MonitorLeer ==
  /\ mon.pc = "leer"
  /\ mon' = [mon EXCEPT !.pc = "escribir", !.tmp = l1.tamano_actual - mon.tam]
  /\ UNCHANGED <<config, l2put, l1, l2, est, siguiente, pasadas, toque, ult>>
  /\ UNCHANGED svars

\* ... and the write; then self.estadisticas.evictions += 1
MonitorEscribir ==
  /\ mon.pc = "escribir"
  /\ l1' = [l1 EXCEPT !.tamano_actual = mon.tmp]
  /\ est' = [est EXCEPT !.evictions = @ + 1]
  /\ mon' = IF mon.n > 1
             THEN [mon EXCEPT !.pc = "loop", !.n = @ - 1, !.clave = NoClave,
                              !.tam = 0, !.tmp = 0]
             ELSE MonIdle
  /\ UNCHANGED <<config, l2put, l2, siguiente, pasadas, toque, ult>>
  /\ UNCHANGED svars

(***************************************************************************)
(* The scheduler.  PrioridadTarea and TipoWorker; task states are the      *)
(* values of EstadoTarea.                                                  *)
(***************************************************************************)
BAJA == 1
NORMAL == 2
ALTA == 3
CRITICA == 4
Prioridades == {BAJA, NORMAL, ALTA, CRITICA}
\* the order in which obtener_tarea scans the buckets
OrdenPrioridad == <<CRITICA, ALTA, NORMAL, BAJA>>
Tipos == {"cpu_intensivo", "io_intensivo", "memoria_intensivo", "general"}
Terminales == {"completada", "fallida", "cancelada"}
Hashes == 1..NHashes
NoTarea == 0
NoWorker == 0

\* tarea_id = f"tarea_{int(time.time() * 1000000)}_{hash(...) % 10000}": the
\* id is made of the clock reading and the hash of function and arguments
IdTarea(t, h) == t * 10 + h

\* queue.PriorityQueue: the entries <<-timestamp, id>> are kept in increasing
\* order (tuples compare field by field); get() takes the first
Menor(a, b) == a[1] < b[1] \/ (a[1] = b[1] /\ a[2] < b[2])
Insertar(q, e) ==
  LET n == Cardinality({i \in 1..Len(q) : ~Menor(e, q[i])})
  IN SubSeq(q, 1, n) \o <<e>> \o SubSeq(q, n + 1, Len(q))

(***************************************************************************)
(* QueueInteligente, on q = [objs, tareas, colas, max_size]                *)
(***************************************************************************)
\* variant of agregar_tarea that puts the entry into the priority heap before
\* it tests the limit; only the sensitivity run of C15 uses it
Q_agregar_tarea_encola(q, o) ==
  LET t == q.objs[o]
  IN IF q.max_size > 0 /\ Cardinality(DOMAIN q.tareas) >= q.max_size
     THEN [q |-> [q EXCEPT !.colas[t.prioridad] = Insertar(@, <<0 - t.ts, t.id>>)],
           ret |-> FALSE]
     ELSE [q |-> [q EXCEPT !.objs[o].estado = "en_cola",
                           !.tareas = Poner(@, t.id, o),
                           !.colas[t.prioridad] = Insertar(@, <<0 - t.ts, t.id>>)],
           ret |-> TRUE]
\* agregar_tarea(tarea)
Q_agregar_tarea(q, o) ==
  LET t == q.objs[o]
  IN IF q.max_size > 0 /\ Cardinality(DOMAIN q.tareas) >= q.max_size
     THEN [q |-> q, ret |-> FALSE]
     ELSE [q |-> [q EXCEPT !.objs[o].estado = "en_cola",
                           !.tareas = Poner(@, t.id, o),
                           !.colas[t.prioridad] = Insertar(@, <<0 - t.ts, t.id>>)],
           ret |-> TRUE]

\* obtener_tarea(): scans the buckets from position i of OrdenPrioridad on
RECURSIVE Q_obtener_desde(_, _)
Q_obtener_desde(q, i) ==
  IF i > Len(OrdenPrioridad) THEN [q |-> q, tarea |-> NoTarea]
  ELSE LET p == OrdenPrioridad[i]
       IN IF q.colas[p] = <<>> THEN Q_obtener_desde(q, i + 1)
          ELSE LET id == Head(q.colas[p])[2]
                   q1 == [q EXCEPT !.colas[p] = Tail(@)]
               IN IF id \in DOMAIN q.tareas
                  THEN [q |-> [q1 EXCEPT !.objs[q.tareas[id]].estado = "en_proceso"],
                        tarea |-> q.tareas[id]]
                  ELSE Q_obtener_desde(q1, i + 1)

Q_obtener_tarea(q) == Q_obtener_desde(q, 1)

\* cancelar_tarea(tarea_id)
Q_cancelar_tarea(q, id) ==
  IF id \in DOMAIN q.tareas
  THEN [q |-> [q EXCEPT !.objs[q.tareas[id]].estado = "cancelada"], ret |-> TRUE]
  ELSE [q |-> q, ret |-> FALSE]

\* obtener_estadisticas()["tareas_pendientes"]
Q_tareas_pendientes(q) ==
  Cardinality({id \in DOMAIN q.tareas : q.objs[q.tareas[id]].estado = "en_cola"})

(***************************************************************************)
(* WorkerPoolDinamico, on p = [workers, disponibles].  A worker is         *)
(* [tipo, salud, puntaje]: puntaje stands for the score that               *)
(* seleccionar_worker_optimo computes from the worker's metrics.           *)
(***************************************************************************)
WorkerNuevo(tipo) == [tipo |-> tipo, salud |-> "saludable", puntaje |-> 0]

\* _crear_nuevo_worker(tipo)
P_crear_nuevo_worker(p, tipo) ==
  IF Len(p.workers) >= MaxWorkers THEN [p |-> p, w |-> NoWorker]
  ELSE [p |-> [workers |-> Append(p.workers, WorkerNuevo(tipo)),
               disponibles |-> [p.disponibles EXCEPT ![tipo] = Append(@, Len(p.workers) + 1)]],
        w |-> Len(p.workers) + 1]

\* variant of obtener_worker_disponible that creates the worker itself and
\* does not look at max_workers; only the sensitivity run of C19 uses it
P_obtener_worker_disponible_sin_techo(p, tipo) ==
  IF p.disponibles[tipo] # <<>>
  THEN [p |-> [p EXCEPT !.disponibles[tipo] = Tail(@)], w |-> Head(p.disponibles[tipo])]
  ELSE IF p.disponibles["general"] # <<>>
  THEN [p |-> [p EXCEPT !.disponibles["general"] = Tail(@)],
        w |-> Head(p.disponibles["general"])]
  ELSE [p |-> [workers |-> Append(p.workers, WorkerNuevo(tipo)),
               disponibles |-> [p.disponibles EXCEPT ![tipo] = Append(@, Len(p.workers) + 1)]],
        w |-> Len(p.workers) + 1]
\* obtener_worker_disponible(tipo_requerido)
P_obtener_worker_disponible(p, tipo) ==
  IF p.disponibles[tipo] # <<>>
  THEN [p |-> [p EXCEPT !.disponibles[tipo] = Tail(@)], w |-> Head(p.disponibles[tipo])]
  ELSE IF p.disponibles["general"] # <<>>
  THEN [p |-> [p EXCEPT !.disponibles["general"] = Tail(@)],
        w |-> Head(p.disponibles["general"])]
  ELSE IF Len(p.workers) < MaxWorkers THEN P_crear_nuevo_worker(p, tipo)
  ELSE [p |-> p, w |-> NoWorker]

\* liberar_worker(worker_id, tipo)
P_liberar_worker(p, w, tipo) ==
  IF w \in 1..Len(p.workers) THEN [p EXCEPT !.disponibles[tipo] = Append(@, w)] ELSE p

\* actualizar_metricas_worker: the new score and health follow from the
\* execution time and the system's resources, which are inputs
P_actualizar_metricas_worker(p, w, puntaje, salud) ==
  IF w \in 1..Len(p.workers)
  THEN [p EXCEPT !.workers[w].puntaje = puntaje, !.workers[w].salud = salud]
  ELSE p

\* the loop of escalar_workers: n calls of _crear_nuevo_worker(GENERAL)
RECURSIVE P_crear_varios(_, _)
P_crear_varios(p, n) ==
  IF n = 0 THEN p ELSE P_crear_varios(P_crear_nuevo_worker(p, "general").p, n - 1)

Min(a, b) == IF a < b THEN a ELSE b

\* variant of escalar_workers that does not look at habilitar_autoscaling;
\* only the sensitivity run of C28 uses it
P_escalar_workers_sin_interruptor(p, carga, habilitado) ==
  IF carga > Len(p.workers) * 2 /\ Len(p.workers) < MaxWorkers
  THEN LET n == Min(carga \div 2, MaxWorkers - Len(p.workers))
       IN [p |-> P_crear_varios(p, n), creados |-> n]
  ELSE [p |-> p, creados |-> 0]
\* escalar_workers(carga_actual, ...) under config.habilitar_autoscaling =
\* habilitado: the pool afterwards and the number returned
P_escalar_workers(p, carga, habilitado) ==
  IF ~habilitado THEN [p |-> p, creados |-> 0]
  ELSE IF carga > Len(p.workers) * 2 /\ Len(p.workers) < MaxWorkers
  THEN LET n == Min(carga \div 2, MaxWorkers - Len(p.workers))
       IN [p |-> P_crear_varios(p, n), creados |-> n]
  ELSE [p |-> p, creados |-> 0]

\* list.remove(x): removes the first occurrence
QuitarPrimero(s, x) ==
  IF \E i \in 1..Len(s) : s[i] = x
  THEN LET i == CHOOSE j \in 1..Len(s) : s[j] = x /\ \A m \in 1..(j - 1) : s[m] # x
       IN SubSeq(s, 1, i - 1) \o SubSeq(s, i + 1, Len(s))
  ELSE s

(***************************************************************************)
(* BalanceadorCarga                                                        *)
(***************************************************************************)
\* variant of seleccionar_worker_optimo that takes the first worker whose
\* health is not "critico" without comparing scores; only the sensitivity
\* run of C29 uses it
B_seleccionar_primer_sano(p, tipo) ==
  LET sanos == {w \in 1..Len(p.workers) : p.workers[w].salud # "critico"}
  IN IF sanos = {} THEN P_obtener_worker_disponible(p, tipo)
     ELSE LET mejor == CHOOSE w \in sanos : \A x \in sanos : w <= x
              wt == p.workers[mejor].tipo
          IN [p |-> [p EXCEPT !.disponibles[wt] = QuitarPrimero(@, mejor)], w |-> mejor]
\* seleccionar_worker_optimo(tipo_tarea, ...): the first worker, in insertion
\* order, with the least score among those whose health is not "critico"
B_seleccionar_worker_optimo(p, tipo) ==
  LET sanos == {w \in 1..Len(p.workers) : p.workers[w].salud # "critico"}
  IN IF sanos = {} THEN P_obtener_worker_disponible(p, tipo)
     ELSE LET mejor == CHOOSE w \in sanos :
                         \A x \in sanos :
                            \/ p.workers[w].puntaje < p.workers[x].puntaje
                            \/ (p.workers[w].puntaje = p.workers[x].puntaje /\ w <= x)
              wt == p.workers[mejor].tipo
          IN [p |-> [p EXCEPT !.disponibles[wt] = QuitarPrimero(@, mejor)], w |-> mejor]

(***************************************************************************)
(* SistemaParalelizacionUltraAvanzado.  Callers submit and cancel from     *)
(* their own threads; the control loop (_monitorear_sistema) is one thread *)
(* that dequeues, selects a worker and runs the work function to its end   *)
(* before it goes on.                                                      *)
(***************************************************************************)
Resultados == {Nada, ValorRelleno}
Puntajes == {0, 1}
Salud == {"saludable", "critico"}
TiposTarea == {"general", "cpu_intensivo"}

CicloIdle == [pc |-> "idle", restantes |-> 0, tarea |-> NoTarea, worker |-> NoWorker]

RECURSIVE ListaDe(_, _)
ListaDe(n, i) == IF i > n THEN <<>> ELSE <<i>> \o ListaDe(n, i + 1)

DecisionesNada == [carga |-> 0, antes |-> 0, workers_creados |-> 0]

\* the state after the constructors of QueueInteligente, WorkerPoolDinamico
\* and the system under a configuration with tamano_maximo_cola = cola,
\* min_workers = piso and habilitar_autoscaling in autos
SchedInitDe(cola, piso, autos) ==
  /\ reloj = 1
  /\ objs = <<>>
  /\ tareas = <<>>
  /\ max_size = cola
  /\ autoscaling \in autos
  /\ colas = [p \in Prioridades |-> <<>>]
  /\ workers = [i \in 1..piso |-> WorkerNuevo("general")]
  /\ disponibles = [t \in Tipos |-> IF t = "general" THEN ListaDe(piso, 1) ELSE <<>>]
  /\ ciclo = CicloIdle
  /\ metricas = [tareas_totales |-> 0, tareas_pendientes |-> 0, workers_activos |-> 0]
  /\ decisiones = DecisionesNada
  /\ envio = "nada"

\* the state after SistemaParalelizacionUltraAvanzado.__init__ (autoscaling
\* on, the pool at its floor) with config.tamano_maximo_cola = cola
SchedInitCon(cola) == SchedInitDe(cola, MinWorkers, {TRUE})

SchedInit == SchedInitCon(TamanoMaximoCola)

\* the system clock moves on
Tic ==
  /\ reloj < MaxReloj
  /\ reloj' = reloj + 1
  /\ UNCHANGED <<objs, tareas, colas, workers, disponibles, ciclo, metricas>>
  /\ UNCHANGED cvars
  /\ envio' = "nada"
  /\ UNCHANGED <<max_size, autoscaling, decisiones>>

\* submit_tarea(funcion, *args, prioridad, tipo_worker): h is the hash of the
\* function and its arguments
Submit(h, prio, tipo) ==
  /\ LET id == IdTarea(reloj, h)
         g == Cache_get([l1 |-> l1, l2 |-> l2, est |-> est], id, TRUE)
         nueva == [id |-> id, prioridad |-> prio, tipo_worker |-> tipo,
                   estado |-> "pendiente", ts |-> reloj, resultado |-> Nada]
         r == Q_agregar_tarea([objs |-> Append(objs, nueva), tareas |-> tareas,
                               colas |-> colas, max_size |-> max_size],
                              Len(objs) + 1)
     IN /\ l1' = g.l1
        /\ l2' = g.l2
        /\ toque' = ToqueGet(g, id)
        /\ IF g.ret # Nada
           THEN /\ UNCHANGED <<objs, tareas, colas, metricas>>
                /\ envio' = "cacheada"
           ELSE IF r.ret
           THEN /\ objs' = r.q.objs
                /\ tareas' = r.q.tareas
                /\ colas' = r.q.colas
                /\ metricas' = [metricas EXCEPT !.tareas_totales = @ + 1,
                                                !.tareas_pendientes = @ + 1]
                /\ envio' = "en_cola"
           ELSE \* the exception is raised; the new object is dropped
                /\ objs' = SubSeq(r.q.objs, 1, Len(objs))
                /\ tareas' = r.q.tareas
                /\ colas' = r.q.colas
                /\ metricas' = metricas
                /\ envio' = "rechazada"
  /\ UNCHANGED <<reloj, max_size, autoscaling, decisiones, workers, disponibles, ciclo>>
  /\ UNCHANGED <<config, l2put, est, mon, siguiente, pasadas, ult>>

\* cancelar_tarea(tarea_id)
Cancelar(id) ==
  /\ LET r == Q_cancelar_tarea([objs |-> objs, tareas |-> tareas, colas |-> colas,
                                max_size |-> max_size], id)
     IN /\ objs' = r.q.objs
  /\ UNCHANGED <<reloj, tareas, colas, workers, disponibles, ciclo, metricas>>
  /\ UNCHANGED cvars
  /\ envio' = "nada"
  /\ UNCHANGED <<max_size, autoscaling, decisiones>>

\* one turn of _monitorear_sistema starts: _actualizar_metricas_sistema and
\* the head of _procesar_tareas_pendientes
CicloInicio ==
  /\ ciclo.pc = "idle"
  /\ metricas' = [metricas EXCEPT
                    !.tareas_pendientes =
                       Q_tareas_pendientes([objs |-> objs, tareas |-> tareas,
                                            colas |-> colas, max_size |-> max_size]),
                    !.workers_activos = Len(workers)]
  /\ ciclo' = [CicloIdle EXCEPT !.pc = "loop", !.restantes = Min(10, Len(workers))]
  /\ UNCHANGED <<reloj, objs, tareas, colas, workers, disponibles>>
  /\ UNCHANGED cvars
  /\ envio' = "nada"
  /\ UNCHANGED <<max_size, autoscaling, decisiones>>

\* one iteration of the for loop of _procesar_tareas_pendientes up to the
\* start of the work function: obtener_tarea, seleccionar_worker_optimo, and
\* the re-adding when there is no worker
CicloDespachar ==
  /\ ciclo.pc = "loop"
  /\ IF ciclo.restantes = 0
     THEN /\ ciclo' = [ciclo EXCEPT !.pc = "optimizar"]
          /\ UNCHANGED <<objs, tareas, colas, workers, disponibles>>
     ELSE LET d == Q_obtener_tarea([objs |-> objs, tareas |-> tareas, colas |-> colas,
                                    max_size |-> max_size])
          IN IF d.tarea = NoTarea
             THEN /\ ciclo' = [ciclo EXCEPT !.pc = "optimizar"]
                  /\ objs' = d.q.objs
                  /\ colas' = d.q.colas
                  /\ UNCHANGED <<tareas, workers, disponibles>>
             ELSE LET t == d.q.objs[d.tarea]
                      s == B_seleccionar_worker_optimo(
                             [workers |-> workers, disponibles |-> disponibles],
                             t.tipo_worker)
                      a == Q_agregar_tarea(d.q, d.tarea)
                  IN IF s.w = NoWorker
                     THEN /\ objs' = a.q.objs
                          /\ tareas' = a.q.tareas
                          /\ colas' = a.q.colas
                          /\ workers' = s.p.workers
                          /\ disponibles' = s.p.disponibles
                          /\ ciclo' = [ciclo EXCEPT !.pc = "optimizar", !.tarea = d.tarea]
                     ELSE /\ objs' = d.q.objs
                          /\ colas' = d.q.colas
                          /\ tareas' = tareas
                          /\ workers' = s.p.workers
                          /\ disponibles' = s.p.disponibles
                          /\ ciclo' = [ciclo EXCEPT !.pc = "ejecutando",
                                                    !.tarea = d.tarea, !.worker = s.w]
  /\ UNCHANGED <<reloj, metricas>>
  /\ UNCHANGED cvars
  /\ envio' = "nada"
  /\ UNCHANGED <<max_size, autoscaling, decisiones>>

\* the work function ends (exito with resultado, or an exception) and
\* _procesar_tarea_en_worker goes on to its end
CicloTerminar(resultado, exito, puntaje, salud) ==
  /\ ciclo.pc = "ejecutando"
  /\ exito \/ resultado = Nada
  /\ LET o == ciclo.tarea
         t == objs[o]
         c == Cache_put([l1 |-> l1, l2 |-> l2, est |-> est], config, t.id, resultado,
                        TRUE, "no")
         p1 == P_actualizar_metricas_worker(
                 [workers |-> workers, disponibles |-> disponibles],
                 ciclo.worker, puntaje, salud)
         p2 == P_liberar_worker(p1, ciclo.worker, t.tipo_worker)
     IN /\ IF exito
           THEN /\ l1' = c.l1
                /\ l2' = c.l2
                /\ est' = c.est
                /\ toque' = ToquePut(c, t.id)
                /\ objs' = [objs EXCEPT ![o].estado = "completada",
                                        ![o].resultado = resultado]
           ELSE /\ UNCHANGED <<l1, l2, est, toque>>
                /\ objs' = [objs EXCEPT ![o].estado = "fallida"]
        /\ workers' = p2.workers
        /\ disponibles' = p2.disponibles
  /\ metricas' = [metricas EXCEPT !.tareas_pendientes = @ - 1]
  /\ ciclo' = [CicloIdle EXCEPT !.pc = "loop", !.restantes = ciclo.restantes - 1]
  /\ UNCHANGED <<reloj, tareas, colas>>
  /\ UNCHANGED <<config, l2put, mon, siguiente, pasadas, ult>>
  /\ envio' = "nada"
  /\ UNCHANGED <<max_size, autoscaling, decisiones>>

\* future.result(timeout=tarea.timeout) raises TimeoutError while the work
\* function is still running: exito = False, and the with block of the
\* ThreadPoolExecutor is left through shutdown(wait=True), which waits for
\* the work function
CicloTimeout ==
  /\ ciclo.pc = "ejecutando"
  /\ ciclo' = [ciclo EXCEPT !.pc = "cerrando"]
  /\ UNCHANGED <<reloj, objs, tareas, colas, workers, disponibles, metricas>>
  /\ UNCHANGED cvars
  /\ envio' = "nada"
  /\ UNCHANGED <<max_size, autoscaling, decisiones>>

\* the work function ends after its timeout: the with block is left and
\* _procesar_tarea_en_worker goes on to its end with exito = False
CicloCerrar(puntaje, salud) ==
  /\ ciclo.pc = "cerrando"
  /\ LET o == ciclo.tarea
         t == objs[o]
         p1 == P_actualizar_metricas_worker(
                 [workers |-> workers, disponibles |-> disponibles],
                 ciclo.worker, puntaje, salud)
         p2 == P_liberar_worker(p1, ciclo.worker, t.tipo_worker)
     IN /\ objs' = [objs EXCEPT ![o].estado = "fallida"]
        /\ workers' = p2.workers
        /\ disponibles' = p2.disponibles
  /\ metricas' = [metricas EXCEPT !.tareas_pendientes = @ - 1]
  /\ ciclo' = [CicloIdle EXCEPT !.pc = "loop", !.restantes = ciclo.restantes - 1]
  /\ UNCHANGED <<reloj, tareas, colas>>
  /\ UNCHANGED cvars
  /\ envio' = "nada"
  /\ UNCHANGED <<max_size, autoscaling, decisiones>>

\* the rest of the turn: optimizar_distribucion, then the loop sleeps
CicloOptimizar ==
  /\ ciclo.pc = "optimizar"
  /\ LET p == [workers |-> workers, disponibles |-> disponibles]
         e == P_escalar_workers(p, metricas.tareas_pendientes, autoscaling)
     IN IF metricas.tareas_pendientes > metricas.workers_activos * 3
        THEN /\ workers' = e.p.workers
             /\ disponibles' = e.p.disponibles
             /\ decisiones' = [carga |-> metricas.tareas_pendientes,
                               antes |-> Len(workers),
                               workers_creados |-> e.creados]
        ELSE UNCHANGED <<workers, disponibles, decisiones>>
  /\ ciclo' = CicloIdle
  /\ UNCHANGED <<reloj, objs, tareas, colas, metricas>>
  /\ UNCHANGED cvars
  /\ envio' = "nada"
  /\ UNCHANGED <<max_size, autoscaling>>

\* a caller of the pool calls obtener_worker_disponible(tipo)
Adquirir(tipo) ==
  /\ LET r == P_obtener_worker_disponible(
                [workers |-> workers, disponibles |-> disponibles], tipo)
     IN /\ workers' = r.p.workers
        /\ disponibles' = r.p.disponibles
  /\ UNCHANGED <<reloj, objs, tareas, colas, ciclo, metricas>>
  /\ UNCHANGED cvars
  /\ envio' = "nada"
  /\ UNCHANGED <<max_size, autoscaling, decisiones>>

\* a caller of the pool calls escalar_workers(carga, ...)
Escalar(carga) ==
  /\ LET e == P_escalar_workers([workers |-> workers, disponibles |-> disponibles],
                                carga, autoscaling)
     IN /\ workers' = e.p.workers
        /\ disponibles' = e.p.disponibles
        /\ decisiones' = [carga |-> carga, antes |-> Len(workers),
                          workers_creados |-> e.creados]
  /\ UNCHANGED <<reloj, objs, tareas, colas, ciclo, metricas>>
  /\ UNCHANGED cvars
  /\ envio' = "nada"
  /\ UNCHANGED <<max_size, autoscaling>>

Fallas == {"no", "open", "dump", "dumps"}

\* what the puts of hot keys have added to bytes_almacenados
BytesCalientes ==
  est.bytes_almacenados - TamPickle(ValorRelleno) * (siguiente - NCalientes - 1)

(***************************************************************************)
(* Spec: the cache with automatic shedding switched off in the             *)
(* configuration; clients use the hot keys with every value, and the       *)
(* pickling of a value, blob writes and blob reads may fail.               *)
(***************************************************************************)
Init == CacheInit(BOOLEAN, FALSE) /\ SchedInit

Next ==
  \/ \E k \in Calientes, v \in Valores, falla \in Fallas :
        /\ BytesCalientes + TamPickle(v) <= MaxBytes
        /\ Put(k, v, TRUE, falla)
  \/ \E k \in Calientes, lee_ok \in BOOLEAN : Get(k, lee_ok)
  \/ LimpiarTodo

Spec == Init /\ [][Next]_vars

(***************************************************************************)
(* SpecLRU: compression on, automatic shedding off; a scan of fresh keys   *)
(* fills Tier-1 while one hot key holds a small value or a large value     *)
(* that compresses well; no I/O failures.                                  *)
(***************************************************************************)
InitLRU == CacheInit({TRUE}, FALSE) /\ SchedInit

NextLRU ==
  \/ \E v \in {0, 3} :
        /\ BytesCalientes + 1 <= MaxBytesLRU
        /\ Put(1, v, TRUE, "no")
  \/ Put(siguiente, ValorRelleno, TRUE, "no")
  \/ Get(1, TRUE)

SpecLRU == InitLRU /\ [][NextLRU]_vars

(***************************************************************************)
(* SpecDisco: compression on, automatic shedding off; a scan of fresh keys *)
(* with values too large for Tier-1 fills Tier-2, and the entries too      *)
(* large to be promoted are read in any order; no I/O failures.            *)
(***************************************************************************)
NextDisco ==
  \/ \E v \in {3, 4} : Put(siguiente, v, TRUE, "no")
  \/ \E k \in DOMAIN l2.metadatos :
        /\ ~Promovible([l2.metadatos[k] EXCEPT !.frecuencia_acceso = MaxFrecuencia])
        /\ Get(k, TRUE)

SpecDisco == InitLRU /\ [][NextDisco]_vars

(***************************************************************************)
(* SpecBorrado: SpecDisco with the Tier-2 put taken statement by           *)
(* statement; while a put lasts, the blob files of some stored keys cannot *)
(* be unlinked (they are open elsewhere, or the directory is read-only).   *)
(* The thread inside put keeps running: weak fairness of its steps.        *)
(***************************************************************************)
NextBorrado ==
  \/ \E v \in {3, 4}, fijos \in SUBSET (DOMAIN l2.archivos) :
        L2PutInicio(siguiente, v, fijos)
  \/ L2PutVuelta
  \/ L2PutEscribir
  \/ \E k \in DOMAIN l2.metadatos :
        /\ l2put.pc = "idle"
        /\ ~Promovible([l2.metadatos[k] EXCEPT !.frecuencia_acceso = MaxFrecuencia])
        /\ Get(k, TRUE)

SpecBorrado ==
  /\ InitLRU
  /\ [][NextBorrado]_vars
  /\ WF_vars(L2PutVuelta)
  /\ WF_vars(L2PutEscribir)

(***************************************************************************)
(* SpecErrores: compression on, automatic shedding off; clients put a      *)
(* small and a large value under the hot keys and read them back; the      *)
(* pickling of a value and the reading of a blob may fail.                 *)
(***************************************************************************)
NextErrores ==
  \/ \E k \in Calientes, v \in {0, 3}, falla \in {"no", "dumps"} :
        /\ BytesCalientes + TamPickle(v) <= MaxBytesErrores
        /\ Put(k, v, TRUE, falla)
  \/ \E k \in Calientes, lee_ok \in BOOLEAN : Get(k, lee_ok)

SpecErrores == InitLRU /\ [][NextErrores]_vars

(***************************************************************************)
(* SpecSinFallas: compression on or off, automatic shedding off; clients   *)
(* put values under the hot keys, read them and clear the cache; no I/O    *)
(* failures.                                                               *)
(***************************************************************************)
NextSinFallas ==
  \/ \E k \in Calientes, v \in Valores :
        /\ BytesCalientes + TamPickle(v) <= MaxBytesErrores
        /\ Put(k, v, TRUE, "no")
  \/ \E k \in Calientes : Get(k, TRUE)
  \/ LimpiarTodo

SpecSinFallas == Init /\ [][NextSinFallas]_vars

(***************************************************************************)
(* SpecMonitor: automatic shedding on; a scan of fresh keys fills Tier-1   *)
(* while the monitor thread sheds; no I/O failures.                        *)
(***************************************************************************)
InitMonitor == CacheInit(BOOLEAN, TRUE) /\ SchedInit

NextMonitor ==
  \/ Put(siguiente, ValorRelleno, TRUE, "no")
  \/ MonitorInicio
  \/ MonitorElegir
  \/ MonitorPopDatos
  \/ MonitorPopMeta
  \/ MonitorLeer
  \/ MonitorEscribir

SpecMonitor == InitMonitor /\ [][NextMonitor]_vars

(***************************************************************************)
(* SpecSched: the scheduler with its cache (default configuration; the     *)
(* monitor of the cache does not shed).  Callers submit tasks of three     *)
(* priorities and cancel them; every work function returns the same value  *)
(* or raises; the workers stay healthy.                                    *)
(***************************************************************************)
InitSched == CacheInit({TRUE}, TRUE) /\ SchedInit

NextSched ==
  \/ Tic
  \/ \E h \in Hashes, prio \in {BAJA, NORMAL, CRITICA} :
        /\ Len(objs) < MaxTareas
        /\ Submit(h, prio, "general")
  \/ \E id \in DOMAIN tareas : Cancelar(id)
  \/ CicloInicio
  \/ CicloDespachar
  \/ \E exito \in BOOLEAN :
        CicloTerminar(IF exito THEN ValorRelleno ELSE Nada, exito, 0, "saludable")
  \/ CicloOptimizar

SpecSched == InitSched /\ [][NextSched]_vars

(***************************************************************************)
(* SpecMemo: the scheduler with its cache; tasks of one priority and two   *)
(* worker types, no cancelling; a work function returns None or a value,   *)
(* or raises, and the workers' metrics vary.                               *)
(***************************************************************************)
NextMemo ==
  \/ Tic
  \/ \E h \in Hashes, tipo \in TiposTarea :
        /\ Len(objs) < MaxTareas
        /\ Submit(h, NORMAL, tipo)
  \/ CicloInicio
  \/ CicloDespachar
  \/ \E resultado \in Resultados, exito \in BOOLEAN, puntaje \in Puntajes, salud \in Salud :
        CicloTerminar(resultado, exito, puntaje, salud)
  \/ CicloOptimizar

SpecMemo == InitSched /\ [][NextMemo]_vars

(***************************************************************************)
(* SpecPlazo: the scheduler with tasks whose work may outlast the timeout. *)
(* The control loop is a thread that keeps running (weak fairness of its   *)
(* own steps); nothing is assumed about the work function, which may       *)
(* return in time, return late or never return.                            *)
(***************************************************************************)
NextPlazo ==
  \/ Tic
  \/ \E h \in Hashes :
        /\ Len(objs) < MaxTareas
        /\ Submit(h, NORMAL, "general")
  \/ CicloInicio
  \/ CicloDespachar
  \/ CicloTerminar(ValorRelleno, TRUE, 0, "saludable")
  \/ CicloTimeout
  \/ CicloCerrar(0, "saludable")
  \/ CicloOptimizar

SpecPlazo ==
  /\ InitSched
  /\ [][NextPlazo]_vars
  /\ WF_vars(CicloInicio)
  /\ WF_vars(CicloDespachar)
  /\ WF_vars(CicloOptimizar)

(***************************************************************************)
(* SpecVivo: the scheduler with a finite set of tasks of three affinities, *)
(* submitted with pairwise distinct ids (one function each, h is its hash) *)
(* and never cancelled.  Every work                                        *)
(* function returns in time; the health of a worker after a task is an     *)
(* input (the load of the machine).  The control loop keeps running and    *)
(* the work functions terminate: weak fairness of every step of the loop.  *)
(***************************************************************************)
TiposVivo == {"general", "cpu_intensivo", "io_intensivo"}

NextVivo ==
  \/ \E h \in 1..MaxTareas, tipo \in TiposVivo :
        /\ Len(objs) < MaxTareas
        /\ IdTarea(reloj, h) \notin DOMAIN tareas
        /\ Submit(h, NORMAL, tipo)
  \/ CicloInicio
  \/ CicloDespachar
  \/ \E salud \in Salud : CicloTerminar(ValorRelleno, TRUE, 0, salud)
  \/ CicloOptimizar

SpecVivo ==
  /\ InitSched
  /\ [][NextVivo]_vars
  /\ WF_vars(CicloInicio)
  /\ WF_vars(CicloDespachar)
  /\ WF_vars(\E salud \in Salud : CicloTerminar(ValorRelleno, TRUE, 0, salud))
  /\ WF_vars(CicloOptimizar)

(***************************************************************************)
(* SpecLleno: the scheduler with as many distinct functions as the queue   *)
(* holds tasks, so that the queue fills up; callers submit and cancel, the *)
(* work functions raise (nothing is memoized).                             *)
(***************************************************************************)
NextLleno ==
  \/ \E h \in 1..MaxTareas :
        /\ Len(objs) < MaxTareas \/ Cardinality(DOMAIN tareas) >= max_size
        /\ Submit(h, NORMAL, "general")
  \/ \E id \in DOMAIN tareas : Cancelar(id)
  \/ CicloInicio
  \/ CicloDespachar
  \/ CicloTerminar(Nada, FALSE, 0, "saludable")
  \/ CicloOptimizar

SpecLleno == InitSched /\ [][NextLleno]_vars

(***************************************************************************)
(* SpecPool: the worker pool under load.  Tasks of two affinities with     *)
(* pairwise distinct ids (the k-th task submitted is function k), more of  *)
(* them than three times the floor of the pool, so that the control loop   *)
(* scales the pool; every work function returns in time; the score and     *)
(* the health of a worker after a task are inputs; the queue has no limit. *)
(***************************************************************************)
NextPool ==
  \/ \E tipo \in TiposTarea :
        /\ Len(objs) < MaxTareasPool
        /\ Submit(Len(objs) + 1, NORMAL, tipo)
  \/ CicloInicio
  \/ CicloDespachar
  \/ \E puntaje \in Puntajes, salud \in Salud :
        CicloTerminar(ValorRelleno, TRUE, puntaje, salud)
  \/ CicloOptimizar

InitPool == CacheInit({TRUE}, TRUE) /\ SchedInitCon(0)

SpecPool == InitPool /\ [][NextPool]_vars

\* SpecPool with the control loop thread always running (it is the loop of
\* a thread of its own); a work function takes as long as it likes
SpecPoolVivo ==
  /\ InitPool
  /\ [][NextPool]_vars
  /\ WF_vars(CicloInicio)
  /\ WF_vars(CicloDespachar)
  /\ WF_vars(CicloOptimizar)

(***************************************************************************)
(* SpecAtasco: as many tasks as the queue admits (tamano_maximo_cola =      *)
(* MaxTareasPool), of three affinities and with pairwise distinct ids;     *)
(* every work function returns in time; the health of a worker after a     *)
(* task is an input.                                                       *)
(***************************************************************************)
NextAtasco ==
  \/ \E tipo \in TiposVivo :
        /\ Len(objs) < MaxTareasPool
        /\ Submit(Len(objs) + 1, NORMAL, tipo)
  \/ CicloInicio
  \/ CicloDespachar
  \/ \E salud \in Salud : CicloTerminar(ValorRelleno, TRUE, 0, salud)
  \/ CicloOptimizar

InitAtasco == CacheInit({TRUE}, TRUE) /\ SchedInitCon(MaxTareasPool)

SpecAtasco == InitAtasco /\ [][NextAtasco]_vars

(***************************************************************************)
(* SpecEscala: the worker pool on its own, constructed with any floor up   *)
(* to the ceiling and with autoscaling on or off; its callers acquire      *)
(* workers of every affinity and call escalar_workers with any load.       *)
(***************************************************************************)
NextEscala ==
  \/ \E tipo \in Tipos : Adquirir(tipo)
  \/ \E carga \in 0..MaxCarga : Escalar(carga)

InitEscala ==
  /\ CacheInit({TRUE}, TRUE)
  /\ \E piso \in 0..MaxWorkers : SchedInitDe(0, piso, BOOLEAN)

SpecEscala == InitEscala /\ [][NextEscala]_vars

(***************************************************************************)
(* SpecPisoCero: the scheduler configured with min_workers = 0, so that    *)
(* the pool is constructed without workers; general-purpose tasks with     *)
(* pairwise distinct ids, the queue has no limit.  The control loop keeps  *)
(* running and every work function returns in time: weak fairness of every *)
(* step of the loop.  Nothing obliges a caller to submit.                  *)
(***************************************************************************)
InitPisoCero == CacheInit({TRUE}, TRUE) /\ SchedInitDe(0, 0, {TRUE})

NextPisoCero ==
  \/ /\ Len(objs) < MaxTareasPool
     /\ Submit(Len(objs) + 1, NORMAL, "general")
  \/ CicloInicio
  \/ CicloDespachar
  \/ CicloTerminar(ValorRelleno, TRUE, 0, "saludable")
  \/ CicloOptimizar

SpecPisoCero ==
  /\ InitPisoCero
  /\ [][NextPisoCero]_vars
  /\ WF_vars(CicloInicio)
  /\ WF_vars(CicloDespachar)
  /\ WF_vars(CicloTerminar(ValorRelleno, TRUE, 0, "saludable"))
  /\ WF_vars(CicloOptimizar)

(***************************************************************************)
(* Properties of the cache                                                 *)
(***************************************************************************)
\* a step in which a put was called (only puts raise bytes_almacenados)
EsPut == ult'.op = "put" /\ est'.bytes_almacenados > est.bytes_almacenados
\* a step in which get(k) was called right after a put of k that returned
\* True and met no I/O failure, and the get met no I/O failure either
EsGetTrasPut ==
  /\ ult.op = "put" /\ ult.ok /\ ult.limpio
  /\ ult'.op = "get" /\ ult'.clave = ult.clave /\ ult'.limpio

\* C1: a successful put(k, v) immediately followed by get(k) returns v,
\* whatever was put under k before.
C1_IdaYVuelta == [][EsGetTrasPut => ult'.ret = ult.valor]_vars

\* C2: no key is resident in Tier-1 and in Tier-2 at the same time.
C2_UnSoloNivel == Residentes(l1) \cap DOMAIN l2.metadatos = {}

\* sum of the recorded sizes of the entries resident in Tier-1
TamResidentes(c) ==
  SumaTam([k \in Residentes(c) |->
             IF k \in DOMAIN c.metadatos THEN c.metadatos[k].tamano_bytes ELSE 0],
          Residentes(c))

\* C3: the sizes of the entries resident in Tier-1 add up to at most the
\* capacity of Tier-1.
C3_CapacidadL1 == TamResidentes(l1) <= L1Cap

\* C4: the sizes of the blobs stored in Tier-2 add up to at most the capacity
\* of Tier-2.
C4_CapacidadL2 == L2_calcular_tamano_actual(l2) <= L2Cap

\* the shortest prefix of the touch order t whose removal makes room for tam
\* bytes, given the sizes md and ocupado bytes in use
RECURSIVE PrefijoMinimo(_, _, _, _)
PrefijoMinimo(t, md, ocupado, tam) ==
  IF ocupado + tam <= L1Cap \/ t = <<>> THEN <<>>
  ELSE <<Head(t)>> \o PrefijoMinimo(Tail(t), md, ocupado - md[Head(t)].tamano_bytes, tam)

\* what strict LRU says put(k, v) into Tier-1 evicts in the current state
ExpulsionLRU(k, v) ==
  LET propio == IF k \in Residentes(l1) /\ k \in DOMAIN l1.metadatos
                THEN l1.metadatos[k].tamano_bytes ELSE 0
  IN PrefijoMinimo(QuitarDeSeq(toque, k), l1.metadatos,
                   TamResidentes(l1) - propio, TamPickle(v))

\* C5: a put into Tier-1 (called while no shedding pass of the monitor is in
\* progress) evicts exactly the least recently touched entries, oldest first,
\* and stops as soon as the new entry fits.
C5_LRUEstricto ==
  [][(EsPut /\ ult'.nivel = "L1" /\ mon.pc = "idle")
       => ult'.exp1 = ExpulsionLRU(ult'.clave, ult'.valor)]_vars

\* the entry of k in Tier-2 has been accessed 3 times or more and its size is
\* at most 5% of the capacity of Tier-1
AccedidaYPequena(c, k) ==
  /\ k \in DOMAIN c.metadatos
  /\ c.metadatos[k].frecuencia_acceso >= 3
  /\ c.metadatos[k].tamano_bytes * 20 <= L1Cap

\* C6: a get of a key whose Tier-2 entry has been accessed 3 times or more and
\* is at most 5% of the capacity of Tier-1 is served as a Tier-1 hit.
C6_SiguienteGetEnL1 ==
  [][(ult'.op = "get" /\ AccedidaYPequena(l2, ult'.clave)) => ult'.nivel = "L1"]_vars

(***************************************************************************)
(* Properties of the scheduler                                             *)
(***************************************************************************)
\* a step of the control loop in which obtener_tarea returned a task (it is
\* ciclo'.tarea)
Desencola == ciclo.pc = "loop" /\ ciclo'.pc # "loop" /\ ciclo'.tarea # NoTarea
\* the bucket obtener_tarea takes from, and what stays in bucket p
Primera ==
  CHOOSE p \in Prioridades :
    colas[p] # <<>> /\ \A q \in Prioridades : q > p => colas[q] = <<>>
Quedan(p) == IF p = Primera THEN Tail(colas[p]) ELSE colas[p]

\* C7: dequeue never returns a task of priority p while a task is queued at
\* a strictly higher priority.
C7_PrioridadEstricta ==
  [][Desencola =>
       \A p \in Prioridades : p > objs[ciclo'.tarea].prioridad => Quedan(p) = <<>>]_vars

\* C8: dequeue returns, among the tasks queued at the same priority, the one
\* with the earliest creation timestamp.
C8_FIFO ==
  [][Desencola =>
       \A i \in 1..Len(colas[Primera]) :
          objs[ciclo'.tarea].ts <= 0 - colas[Primera][i][1]]_vars

\* an earlier submission with this id has Completed and the cache holds an
\* entry under its key
Memoizada(id) ==
  /\ \E o \in 1..Len(objs) : objs[o].id = id /\ objs[o].estado = "completada"
  /\ id \in Residentes(l1) \cup DOMAIN l2.metadatos

\* C9: a submission whose cache key holds the result of a Completed earlier
\* submission is not queued again (it returns Completed from the cache).
C9_Memoizacion ==
  [][Len(objs') > Len(objs) => ~Memoizada(objs'[Len(objs')].id)]_vars

\* C10: a task in a terminal state never changes state.
C10_TerminalesFinales ==
  [][\A o \in 1..Len(objs) :
       objs[o].estado \in Terminales => objs'[o].estado = objs[o].estado]_vars

\* C11: a task is set to Cancelled only from Pending or Queued; the state of
\* a task that the scheduler has dequeued is not written by cancel.
C11_CancelaSoloEnCola ==
  [][\A o \in 1..Len(objs) :
        (objs'[o].estado = "cancelada" /\ objs[o].estado # "cancelada")
           => objs[o].estado \in {"pendiente", "en_cola"}]_vars

\* C12: a task whose work has outlasted its timeout becomes Failed, whether
\* or not the work function ever returns.
C12_FallaAlVencer ==
  \A o \in 1..MaxTareas :
     (ciclo.pc = "cerrando" /\ ciclo.tarea = o)
        ~> (o \in 1..Len(objs) /\ objs[o].estado = "fallida")

\* C13: every accepted task leaves the queue and reaches a terminal state.
C13_NadaQuedaEnCola ==
  \A o \in 1..MaxTareas :
     (o \in 1..Len(objs) /\ objs[o].estado = "en_cola")
        ~> (o \in 1..Len(objs) /\ objs[o].estado \in Terminales)

\* the tasks that are not in a terminal state
Pendientes == {o \in 1..Len(objs) : objs[o].estado \notin Terminales}

\* C14: a submission is rejected only when the tasks not yet in a terminal
\* state are as many as the configured maximum.
C14_RechazaSoloSiLleno ==
  [][envio' = "rechazada" => Cardinality(Pendientes) >= max_size]_vars

\* C15: a rejected submission registers no task, queues nothing and leaves
\* the counters of submitted and pending tasks as they were.
C15_RechazoSinEfecto ==
  [][envio' = "rechazada"
       => /\ objs' = objs
          /\ tareas' = tareas
          /\ colas' = colas
          /\ metricas' = metricas
          /\ ciclo' = ciclo]_vars

\* a submission has just been rejected by a full queue
C15_Testigo ==
  /\ envio = "rechazada"
  /\ max_size > 0
  /\ Cardinality(DOMAIN tareas) >= max_size

\* the elements of a sequence
Rango(s) == {s[i] : i \in 1..Len(s)}

\* the idle workers (those in an idle list) that were created with affinity tipo
Ociosos(tipo) ==
  {w \in 1..Len(workers) :
     workers[w].tipo = tipo /\ \E t \in Tipos : w \in Rango(disponibles[t])}

\* a step of the control loop in which obtener_worker_disponible is called:
\* a task is dequeued while no worker is healthy
Adquiere ==
  /\ ciclo.pc = "loop"
  /\ ciclo'.tarea # NoTarea
  /\ \A w \in 1..Len(workers) : workers[w].salud = "critico"

\* C16: acquire returns an idle worker of the requested affinity if there is
\* one, else an idle general-purpose worker if there is one, else a new
\* worker of the requested affinity if the pool is below its ceiling, else
\* none.
C16_Adquisicion ==
  [][Adquiere =>
       LET t == objs'[ciclo'.tarea].tipo_worker
           w == IF ciclo'.pc = "ejecutando" THEN ciclo'.worker ELSE NoWorker
       IN IF Ociosos(t) # {} THEN w \in Ociosos(t)
          ELSE IF Ociosos("general") # {} THEN w \in Ociosos("general")
          ELSE IF Len(workers) < MaxWorkers
          THEN w = Len(workers) + 1 /\ workers'[w].tipo = t
          ELSE w = NoWorker]_vars

\* C17: the worker that the control loop has selected for a task is in no
\* idle list.
C17_SeleccionadoNoOcioso ==
  [][(ciclo.pc = "loop" /\ ciclo'.pc = "ejecutando")
       => \A t \in Tipos : ciclo'.worker \notin Rango(disponibles'[t])]_vars

\* C18: every worker in an idle list is in the list of the affinity it was
\* created with.
C18_OciosoEnSuLista ==
  \A t \in Tipos : \A w \in Rango(disponibles[t]) : workers[w].tipo = t

\* C19: the pool has at least min_workers and at most max_workers workers,
\* and the number of workers never decreases.
C19_TamanoDelPool ==
  /\ MinWorkers <= Len(workers) /\ Len(workers) <= MaxWorkers
  /\ [][/\ Len(workers') >= Len(workers)
        /\ MinWorkers <= Len(workers')
        /\ Len(workers') <= MaxWorkers]_vars

\* escalar_workers has brought the pool from its floor to its ceiling
C19_Testigo ==
  /\ ciclo.pc = "idle"
  /\ metricas.tareas_pendientes > metricas.workers_activos * 3
  /\ metricas.workers_activos = MinWorkers
  /\ Len(workers) = MaxWorkers
  /\ MaxWorkers > MinWorkers


\* a step in which put stored a key that was in neither tier and met no
\* I/O failure
EsPutNuevo ==
  /\ EsPut
  /\ ult'.limpio
  /\ ult'.clave \notin Residentes(l1)
  /\ ult'.clave \notin DOMAIN l2.metadatos

\* C20: the eviction counter counts the entries removed to make room: a put
\* of a new key raises it by the number of entries that the put evicted from
\* Tier-1 and from Tier-2 (by one when a full tier takes one more entry of
\* the same size).
C20_CuentaExpulsiones ==
  [][EsPutNuevo => est'.evictions = est.evictions + Len(ult'.exp1) + Len(ult'.exp2)]_vars


(***************************************************************************)
(* Properties of the control loop                                          *)
(***************************************************************************)
\* the step in which the control loop starts the work function of task o
Despacha(o) == ciclo.pc = "loop" /\ ciclo'.pc = "ejecutando" /\ ciclo'.tarea = o

\* C21: no automatic retry: the work function of a task that has Completed
\* or Failed is never started again.
C21_SinReintento ==
  [][\A o \in 1..Len(objs) :
        objs[o].estado \in {"completada", "fallida"} => ~Despacha(o)]_vars


\* a step in which put was called with a value that cannot be pickled
EsPutNoSerializable == ult'.op = "put" /\ ult'.nivel = "-"
\* a step in which get was called for a key that is not in Tier-1 and whose
\* blob cannot be read or unpickled
EsGetIlegible ==
  ult'.op = "get" /\ ~ult'.limpio /\ ult'.clave \notin Residentes(l1)

\* C22: cache errors are contained: a put whose value cannot be pickled
\* returns False and leaves both tiers and the byte statistic as they were;
\* a get whose blob cannot be read returns a miss.
C22_ErroresContenidos ==
  [][/\ EsPutNoSerializable =>
          /\ ~ult'.ok
          /\ l1' = l1
          /\ l2' = l2
          /\ est' = est
     /\ EsGetIlegible => ult'.ret = Nada]_vars

\* a put that could not pickle its value has just returned, both tiers hold
\* entries, and a stored blob of another key is there to be read
C22_Testigo ==
  /\ ult.op = "put" /\ ult.nivel = "-" /\ ~ult.ok
  /\ Residentes(l1) # {}
  /\ DOMAIN l2.metadatos # {}


\* the tasks whose work function is being executed
EnEjecucion == IF ciclo.pc \in {"ejecutando", "cerrando"} THEN {ciclo.tarea} ELSE {}
EnCola == {o \in 1..Len(objs) : objs[o].estado = "en_cola"}

\* C23: task bodies run concurrently: while the work function of one task is
\* in execution, another task is queued and the pool has at least two
\* workers, the work functions of two tasks come to be in execution at the
\* same time, unless the first one ends before.
C23_DosALaVez ==
  (ciclo.pc = "ejecutando" /\ EnCola # {} /\ Len(workers) >= 2)
     ~> (Cardinality(EnEjecucion) >= 2 \/ ciclo.pc # "ejecutando")


\* the tasks whose state is Running
EnProceso == {o \in 1..Len(objs) : objs[o].estado = "en_proceso"}

\* C24: the number of tasks whose state is Running is at most the number of
\* workers of the pool.
C24_EnProcesoAcotado == Cardinality(EnProceso) <= Len(workers)


\* C25: whenever no forced eviction of the memory monitor is under way,
\* Tier-1's byte counter equals the sum of the sizes of its resident entries
\* and its value map and its metadata map hold the same keys.
C25_ContabilidadL1 ==
  mon.pc = "idle" =>
     /\ l1.tamano_actual = TamResidentes(l1)
     /\ Residentes(l1) = DOMAIN l1.metadatos


\* C26: the monitor's forced eviction mutates Tier-1 under Tier-1's lock:
\* between the read and the write of its update of the byte counter, which
\* the lock would make one critical section, no other thread mutates the
\* byte counter or the maps of Tier-1.
C26_ExpulsionBajoCandado ==
  [][(mon.pc = "escribir" /\ mon' = mon) => l1' = l1]_vars


\* the step in which the control loop found no worker for the task it had
\* just dequeued
SinWorker == ciclo.pc = "loop" /\ ciclo'.pc = "optimizar" /\ ciclo'.tarea # NoTarea

\* C27: a task that was dequeued and got no worker is requeued: after the
\* step its state is Queued and its entry is in the bucket of its priority.
C27_Reencolada ==
  [][SinWorker =>
        LET t == objs'[ciclo'.tarea]
        IN /\ t.estado = "en_cola"
           /\ <<0 - t.ts, t.id>> \in Rango(colas'[t.prioridad])]_vars



\* a step in which escalar_workers was called
EsEscalar == decisiones' # decisiones

\* C28: escalar_workers(carga) creates workers only when autoscaling is
\* enabled, carga > 2 x pool size and pool size < ceiling; it then creates
\* exactly min(carga div 2, ceiling - pool size) general-purpose workers,
\* idle, and returns that number; otherwise it creates none and returns 0.
\* The workers that were there are left as they were.
C28_Escalado ==
  [][EsEscalar =>
       LET n == Len(workers)
           carga == decisiones'.carga
           k == IF autoscaling /\ carga > 2 * n /\ n < MaxWorkers
                THEN Min(carga \div 2, MaxWorkers - n)
                ELSE 0
       IN /\ decisiones'.workers_creados = k
          /\ Len(workers') = n + k
          /\ SubSeq(workers', 1, n) = workers
          /\ \A w \in (n + 1)..(n + k) :
                /\ workers'[w] = WorkerNuevo("general")
                /\ w \in Rango(disponibles'["general"])
          /\ \A t \in Tipos \ {"general"} : disponibles'[t] = disponibles[t]]_vars

\* escalar_workers has just created fewer workers than the ceiling allows,
\* because half the load is less
C28_Testigo ==
  /\ autoscaling
  /\ decisiones.workers_creados > 0
  /\ decisiones.workers_creados = decisiones.carga \div 2
  /\ decisiones.workers_creados < MaxWorkers - decisiones.antes
  /\ Len(workers) = decisiones.antes + decisiones.workers_creados


\* the workers whose health is not critical
Sanos == {w \in 1..Len(workers) : workers[w].salud # "critico"}

\* C29: when some worker is not in critical health, the selection returns a
\* worker that is not critical and whose score is the least among the
\* non-critical workers; a critical worker, or none, is returned only when
\* every worker is critical.
C29_MejorSano ==
  [][/\ (ciclo.pc = "loop" /\ ciclo'.pc = "ejecutando" /\ Sanos # {}) =>
          /\ ciclo'.worker \in Sanos
          /\ \A x \in Sanos : workers[ciclo'.worker].puntaje <= workers[x].puntaje
     /\ SinWorker => Sanos = {}]_vars

\* the selection has just passed over the first worker, which is not
\* critical, for a later one with a lower score
C29_Testigo ==
  /\ ciclo.pc = "ejecutando"
  /\ ciclo.worker > 1
  /\ workers[1].salud # "critico"
  /\ workers[ciclo.worker].salud # "critico"
  /\ workers[ciclo.worker].puntaje < workers[1].puntaje


\* the step with which a shedding pass of the memory monitor ends
FinDePasada == mon.pc # "idle" /\ mon'.pc = "idle"

\* C30: a shedding pass over a Tier-1 of n entries removes the floor(n/4)
\* least-recently-used entries and adds floor(n/4) to the eviction counter;
\* no step of the pass touches Tier-2.
C30_PasadaDeLimpieza ==
  [][/\ FinDePasada =>
          /\ est'.evictions = mon.ev0 + mon.total
          /\ mon.total = Len(mon.antes) \div 4
          /\ \A i \in 1..mon.total : mon.antes[i] \notin Residentes(l1')
     /\ mon' # mon => l2' = l2]_vars



(***************************************************************************)
(* Properties of Tier-2                                                    *)
(***************************************************************************)
\* a step in which put stored a value in Tier-2 and met no I/O failure
EsPutL2 == EsPut /\ ult'.nivel = "L2" /\ ult'.limpio

\* the keys other than the key of the put that the put evicted from Tier-2,
\* in the order of their eviction
OtrasExpulsadas == SelectSeq(ult'.exp2, LAMBDA e : e # ult'.clave)

\* C31: a Tier-2 put evicts entries in increasing order of last-access time
\* and only as many as are needed: the content of the tier after the put
\* (the key of the put counted once, with its new blob) would not fit
\* together with the blob of the last other key evicted; in particular
\* nothing else is evicted when the content after the put fits.
C31_ExpulsionMinimaL2 ==
  [][EsPutL2 =>
       /\ \A i, j \in 1..Len(ult'.exp2) :
             i < j => l2.metadatos[ult'.exp2[i]].ts < l2.metadatos[ult'.exp2[j]].ts
       /\ OtrasExpulsadas # <<>> =>
             L2_calcular_tamano_actual(l2')
               + l2.archivos[OtrasExpulsadas[Len(OtrasExpulsadas)]].tam > L2Cap]_vars



(***************************************************************************)
(* Properties of submission and cancellation                               *)
(***************************************************************************)
\* a step in which submit_tarea created and queued a task (the last of objs')
EsAceptada == Len(objs') > Len(objs)

\* C32: any two submissions receive distinct task ids: the id of a newly
\* queued task is the id of no task submitted before, so that the queue's
\* record of an earlier task is never replaced.
C32_IdsDistintos ==
  [][EsAceptada =>
       /\ \A o \in 1..Len(objs) : objs[o].id # objs'[Len(objs')].id
       /\ \A id \in DOMAIN tareas : tareas'[id] = tareas[id]]_vars


\* C33: a task cancelled while Queued is never dispatched: no dequeue sets a
\* Cancelled task to Running and its work function is not started.
C33_CanceladaNoSeDespacha ==
  [][\A o \in 1..Len(objs) :
        objs[o].estado = "cancelada"
           => (objs'[o].estado # "en_proceso" /\ ~Despacha(o))]_vars



(***************************************************************************)
(* Properties of the idle lists                                            *)
(***************************************************************************)
\* the places <<tipo, position>> of the idle lists that hold worker w
LugaresDe(w) ==
  {<<t, i>> \in Tipos \X (1..Len(workers)) :
      i <= Len(disponibles[t]) /\ disponibles[t][i] = w}

\* a step in which obtener_worker_disponible created a worker, which it
\* returns (escalar_workers, the other creator, records its call in decisiones)
CreaAlAdquirir == Len(workers') > Len(workers) /\ decisiones' = decisiones

\* C34: every worker occurs at most once across the idle lists, and a worker
\* handed out by acquire, a worker that acquire has just created included,
\* is in no idle list.
C34_OciososSinRepetir ==
  [][/\ \A w \in 1..Len(workers') : Cardinality(LugaresDe(w)') <= 1
     /\ CreaAlAdquirir =>
           \A t \in Tipos : Len(workers') \notin Rango(disponibles'[t])]_vars



(***************************************************************************)
(* Properties of the routing between the tiers                             *)
(***************************************************************************)
\* C35: with compression disabled no entry is promoted from Tier-2 to
\* Tier-1: every entry of Tier-2 has a recorded size above 10% of the
\* capacity of Tier-1, and no get promotes.
C35_SinPromocion ==
  [][~config.habilitar_compresion =>
       /\ \A k \in DOMAIN l2'.metadatos : l2'.metadatos[k].tamano_bytes * 10 > L1Cap
       /\ ult'.op = "get" => ~ult'.promovida]_vars

\* with compression disabled, a get has just been served from Tier-2 by an
\* entry accessed 3 times or more, which stays in Tier-2
C35_Testigo ==
  /\ ~config.habilitar_compresion
  /\ ult.op = "get" /\ ult.nivel = "L2" /\ ~ult.promovida
  /\ ult.clave \in DOMAIN l2.metadatos
  /\ l2.metadatos[ult.clave].frecuencia_acceso >= 3
  /\ ult.clave \notin Residentes(l1)


\* key k can be served: it is in Tier-1, or Tier-2 has its metadata and a
\* blob that was written whole
Servible(a, b, k) ==
  \/ k \in Residentes(a)
  \/ /\ k \in DOMAIN b.metadatos
     /\ k \in DOMAIN b.archivos
     /\ b.archivos[k].forma # "roto"

\* C36: whenever put returns True the key is resident in some tier right
\* afterwards (a get of it would hit), whether or not the write of the
\* blob failed.
C36_ExitoImplicaResidente ==
  [][(ult'.op = "put" /\ ult'.ok) => Servible(l1', l2', ult'.clave)]_vars


\* sum of the recorded sizes of the entries of Tier-2
TamDisco(c) ==
  SumaTam([k \in DOMAIN c.metadatos |-> c.metadatos[k].tamano_bytes], DOMAIN c.metadatos)

\* C37: the 'bytes stored' statistic equals the total size of the entries
\* resident in the two tiers.
C37_BytesAlmacenados == est.bytes_almacenados = TamResidentes(l1) + TamDisco(l2)


\* a step in which put was routed to Tier-2 and the write of the blob failed
EsPutL2Fallido == ult'.op = "put" /\ ult'.nivel = "L2" /\ ~ult'.limpio

\* C38: a Tier-2 put whose blob write fails leaves Tier-2 as it was: the
\* index and the blob files are unchanged (nothing was evicted and the value
\* stored before under the key is still there).
C38_FalloSinEfecto == [][EsPutL2Fallido => l2' = l2]_vars


\* C39: the make-room loop of a Tier-2 put always terminates and the put
\* releases the lock of Tier-2, whether or not blob files can be deleted.
C39_HacerSitioTermina == (l2put.pc = "limpiar") ~> (l2put.pc = "idle")



\* C40: with min_workers = 0 and max_workers >= 1, a single queued task is
\* eventually dispatched and reaches a terminal state (the control loop
\* creates a worker for it), unless further tasks are submitted meanwhile.
C40_UnaSolaTarea ==
  (Len(objs) = 1 /\ objs[1].estado = "en_cola" /\ Len(workers) = 0 /\ MaxWorkers >= 1)
     ~> (Len(objs) > 1 \/ (Len(objs) = 1 /\ objs[1].estado \in Terminales))

====
